---- MODULE Spec2Model ----
(***************************************************************************)
(* BMP280 logger (bmp280.py): register decoding, the compensation formula  *)
(* and the sampling loop of main() with its signal handler.                *)
(*                                                                         *)
(* Units.  The clock counts ticks of one wait slice (the 0.5 s of line     *)
(* 159), so one second is 2 * SLICE ticks.  Floating-point values are      *)
(* carried as fixed-point integers; a formatted field "%.3f" is the value  *)
(* in thousandths.                                                         *)
(***************************************************************************)
EXTENDS Integers, Sequences, FiniteSets, TLC

\* ---- user knobs and register map (bmp280.py:13-41) ----
ADDR == 118
INTERVAL_S == 300
REG_CALIB_START == 136
REG_ID == 208
REG_CTRL_MEAS == 244
REG_CONFIG == 245
REG_PRESS_MSB == 247

\* The slice of the inter-poll wait, min(0.5, ...) at line 159: one tick.
SLICE == 1
TicksPerSecond == 2 * SLICE
Interval == INTERVAL_S * TicksPerSecond

\* ---- bounds of the model ----
\* polls the loop may start
MaxPolls == 2
\* ticks the clock may advance between the two time.time() readings of one
\* pass of the wait loop (line 158 and line 159)
MaxSkew == 2

\* how many times configure_sensor is issued when it is issued repeatedly
MaxIssues == 2

\* ---- integer helpers ----
Abs(x) == IF x < 0 THEN -x ELSE x

Sgn(x) == IF x < 0 THEN -1 ELSE 1

Min(a, b) == IF a < b THEN a ELSE b

RECURSIVE Pow2(_)
Pow2(n) == IF n = 0 THEN 1 ELSE 2 * Pow2(n - 1)

\* Python's x << n and x >> n on non-negative integers
Shl(x, n) == x * Pow2(n)

Shr(x, n) == x \div Pow2(n)

\* Python's a | b on non-negative integers, bit by bit
RECURSIVE BitOr(_, _)
BitOr(a, b) ==
    IF a = 0 THEN b
    ELSE IF b = 0 THEN a
    ELSE 2 * BitOr(a \div 2, b \div 2) + (IF (a % 2) + (b % 2) > 0 THEN 1 ELSE 0)

\* <<quotient, remainder>> of (r * b) / c for 0 <= r < c, b >= 0, computed by
\* doubling so that no intermediate value leaves 32 bits (c < 2^29)
RECURSIVE MulQR(_, _, _)
MulQR(r, b, c) ==
    IF b = 0 THEN <<0, 0>>
    ELSE LET h == MulQR(r, b \div 2, c)
             m == 2 * h[2] + (IF b % 2 = 1 THEN r ELSE 0)
         IN  <<2 * h[1] + (m \div c), m % c>>

\* a * b / c truncated towards zero (c > 0)
MulDiv(a, b, c) ==
    LET x == Abs(a)
        y == Abs(b)
    IN  Sgn(a) * Sgn(b) * ((x \div c) * y + MulQR(x % c, y, c)[1])

\* a / c rounded to nearest (c > 0)
RoundDiv(a, c) == Sgn(a) * ((2 * Abs(a) + c) \div (2 * c))

\* ---- _s16 (bmp280.py:51-52) ----
_s16(u) == IF u > 32767 THEN u - 65536 ELSE u

\* faulty variant: the two bytes of a word are taken high byte first
Word_BigEndian(b, i) == BitOr(b[i + 2], Shl(b[i + 1], 8))

\* little-endian 16-bit word at Python index i of block b: b[i] | (b[i+1] << 8)
Word(b, i) == BitOr(b[i + 1], Shl(b[i + 2], 8))

\* ---- read_calibration: the decode of the 24-byte block (bmp280.py:57-70) ----
\* result: <<dig_T1, dig_T2, dig_T3, dig_P1, dig_P2, ..., dig_P9>>
DecodeCalibration(b) ==
    << Word(b, 0), _s16(Word(b, 2)), _s16(Word(b, 4)),
       Word(b, 6), _s16(Word(b, 8)), _s16(Word(b, 10)), _s16(Word(b, 12)),
       _s16(Word(b, 14)), _s16(Word(b, 16)), _s16(Word(b, 18)),
       _s16(Word(b, 20)), _s16(Word(b, 22)) >>

\* faulty variant: the temperature count is taken from the first three bytes
\* and the pressure count from the last three
AssembleRaw_Swapped(data) ==
    LET adc_t == BitOr(BitOr(Shl(data[1], 12), Shl(data[2], 4)), Shr(data[3], 4))
        adc_p == BitOr(BitOr(Shl(data[4], 12), Shl(data[5], 4)), Shr(data[6], 4))
    IN  <<adc_t, adc_p>>

\* ---- read_raw: the assembly of the 6-byte block (bmp280.py:81-83) ----
\* result: <<adc_t, adc_p>>
AssembleRaw(data) ==
    LET adc_p == BitOr(BitOr(Shl(data[1], 12), Shl(data[2], 4)), Shr(data[3], 4))
        adc_t == BitOr(BitOr(Shl(data[4], 12), Shl(data[5], 4)), Shr(data[6], 4))
    IN  <<adc_t, adc_p>>

\* ---- compensate (bmp280.py:85-112) ----
\* Fixed-point evaluation of the floating-point formula, step by step in the
\* source's order.  t_fine is kept in units of 1, pressures in 1/16 Pa, the
\* denominator var1 in 1/1024.  Result: <<temp_c, pres_hpa>> in thousandths.
\* The integers stay within 32 bits for coefficients and counts of the size
\* of the datasheet's example; the floating-point result is matched to about
\* one thousandth, not bit for bit.
TFine(adc_t, calib) ==
    LET a    == adc_t - 16 * calib[1]
        \* var1 = (adc_t/16384 - T1/1024) * T2
        var1 == MulDiv(a, calib[2], 16384)
        \* var2 = (adc_t/131072 - T1/8192)^2 * T3
        var2 == MulDiv(MulDiv(a, a, 131072), calib[3], 131072)
    IN  var1 + var2

\* faulty variant: the factor (1.0 + var1 / 32768.0) of line 100 is left out
PressDenominator_Unscaled(t_fine, calib) == calib[4] * 1024

\* var1 of line 100, (1.0 + var1 / 32768.0) * dig_P1, in units of 1/1024
PressDenominator(t_fine, calib) ==
    LET w2 == t_fine - 128000
        \* line 99 times 524288: P3 * var1 * var1 / 524288 + P2 * var1
        g  == MulDiv(MulDiv(w2, calib[6], 1024), w2, 2048) + MulDiv(calib[5], w2, 2)
    IN  calib[4] * 1024 + MulDiv(g, calib[4], 16777216)

\* faulty variant: with var1 == 0 only the division is skipped, and lines
\* 106-108 still add the offset (var1 + var2 + dig_P7) / 16 to p = 0
compensate_SentinelFallsThrough(adc_t, adc_p, calib) ==
    LET t_fine == TFine(adc_t, calib)
        temp_c == RoundDiv(t_fine * 25, 128)
        w2     == t_fine - 128000
        var2a  == MulDiv(MulDiv(w2, calib[9], 256), w2, 512) + w2 * calib[8]
        var2   == MulDiv(var2a, 16, 16384) + calib[7] * 256
        den    == PressDenominator(t_fine, calib)
        p      == IF den = 0 THEN 0
                  ELSE MulDiv((1048576 - adc_p) * 16 - var2, 6400000, den)
        v1     == MulDiv(MulDiv(p, calib[12], 32768), p, 1048576)
        v2     == MulDiv(p, calib[11], 32768)
        pres16 == p + ((v1 + v2 + calib[10] * 16) \div 16)
    IN  <<temp_c, RoundDiv(pres16 * 10, 16)>>

compensate(adc_t, adc_p, calib) ==
    LET t_fine == TFine(adc_t, calib)
        temp_c == RoundDiv(t_fine * 25, 128)
        w2     == t_fine - 128000
        \* lines 96-97: var1*var1*P6/32768 + var1*P5*2
        var2a  == MulDiv(MulDiv(w2, calib[9], 256), w2, 512) + w2 * calib[8]
        \* line 98 divided by 4096, in 1/16
        var2   == MulDiv(var2a, 16, 16384) + calib[7] * 256
        den    == PressDenominator(t_fine, calib)
        \* lines 104-105, in 1/16 Pa
        p      == MulDiv((1048576 - adc_p) * 16 - var2, 6400000, den)
        \* line 106: P9 * p * p / 2147483648, in 1/16 Pa
        v1     == MulDiv(MulDiv(p, calib[12], 32768), p, 1048576)
        \* line 107: p * P8 / 32768, in 1/16 Pa
        v2     == MulDiv(p, calib[11], 32768)
        pres16 == IF den = 0 THEN 0
                  ELSE p + ((v1 + v2 + calib[10] * 16) \div 16)
    IN  <<temp_c, RoundDiv(pres16 * 10, 16)>>

\* ---- what the bus returns ----
\* calibration blocks the device may hold: the reference vector of the
\* datasheet example, and the same block with dig_P1 = 0
RefBlock ==
    << 112, 107, 67, 103, 24, 252, 125, 142, 67, 214, 208, 11,
       39, 11, 140, 0, 249, 255, 140, 60, 248, 198, 112, 23 >>

CalibBlocks == { RefBlock, [RefBlock EXCEPT ![7] = 0, ![8] = 0] }

\* measurement blocks the device may return (press MSB/LSB/XLSB, temp MSB/LSB/XLSB)
SampleBlocks == { <<101, 90, 192, 126, 237, 0>> }

\* ---- rows of the log file ----
Header == [kind |-> "header", cols |-> <<"timestamp", "temp_C", "pressure_hPa">>]

\* f"{x:.3f}" of a finite float: the value in thousandths
Fmt3(x) == <<"num", x>>

\* the literal "nan"
NanField == <<"nan", 0>>

\* ts(): local time to the second (bmp280.py:114-115)
ts(t) == t \div TicksPerSecond

\* poll is the number of the poll that wrote the row (kept for the ordering claims)
Row(k, t, temp, pres) ==
    [kind |-> "data", poll |-> k, ts |-> ts(t), temp |-> temp, pres |-> pres]

Tx(op, reg, arg) == [op |-> op, addr |-> ADDR, reg |-> reg, arg |-> arg]

NoCalib == << >>

\* ---- the sensor at the other end of the bus ----
\* its calibration block (0x88..0x9F), its measurement block (0xF7..0xFC)
\* and the two registers configure_sensor writes
Device(c, m, cm, cf) == [calib |-> c, meas |-> m, ctrl_meas |-> cm, config |-> cf]

\* bus.write_byte_data(ADDR, reg, val) as the device sees it
WriteReg(d, reg, val) ==
    IF reg = REG_CTRL_MEAS THEN [d EXCEPT !.ctrl_meas = val]
    ELSE IF reg = REG_CONFIG THEN [d EXCEPT !.config = val]
    ELSE d

\* the devices main() may find: both registers hold their power-on value
Devices == { Device(c, m, 0, 0) : c \in CalibBlocks, m \in SampleBlocks }

VARIABLES
    pc,          \* position of main()
    STOP,        \* the module-level flag set by _sig
    bus,         \* "none", "open", "closed"
    busCloses,   \* number of bus.close() calls
    busLog,      \* bus transactions issued, in order
    calib,       \* the decoded calibration tuple, NoCalib before the decode
    dev,         \* the sensor: its blocks and registers
    sink,        \* the log file: "none", "open", "closed"
    buf,         \* rows written but not yet flushed
    disk,        \* rows flushed to the file
    lost,        \* rows dropped because the flush of close() failed
    now,         \* time.time(), in ticks
    end,         \* deadline of the current wait
    dur,         \* argument of the pending time.sleep
    polls,       \* polls started
    completed,   \* polls whose try/except statement has finished
    adc,         \* <<adc_t, adc_p>> of the poll in flight
    failedPolls, \* numbers of the polls in which read_raw raised
    waitFrom,    \* the clock reading of line 157 of the current wait
    usedCalibs,  \* the coefficient tuples compensate has been called with
    raised,      \* an exception is propagating out of main()
    startFailed, \* a startup step failed
    stopPc,      \* pc at the first shutdown request, "none" before
    stopPolls,   \* polls at the first shutdown request
    stopSlept    \* ticks slept since the first shutdown request

vars == << pc, STOP, bus, busCloses, busLog, calib, dev, sink, buf, disk, lost, now,
           end, dur, polls, completed, adc, failedPolls, waitFrom, usedCalibs, raised,
           startFailed,
           stopPc, stopPolls, stopSlept >>

busVars == << bus, busCloses, busLog, calib, dev >>

sinkVars == << sink, buf, disk, lost >>

clockVars == << now, end, dur, waitFrom >>

stopVars == << STOP, stopPc, stopPolls, stopSlept >>

pollVars == << polls, completed, adc, failedPolls, usedCalibs >>

StartPcs == {"mkdir", "open_bus", "chip_id", "read_calibration", "configure",
             "banner", "open_sink", "header"}

PollPcs == {"read_raw", "write_ok", "flush_ok", "print_ok",
            "h_write", "h_flush", "h_print"}

WaitPcs == {"wait_check", "wait_dur", "sleep"}

Init ==
    /\ pc = "mkdir"
    /\ STOP = FALSE
    /\ bus = "none"
    /\ busCloses = 0
    /\ busLog = << >>
    /\ calib = NoCalib
    /\ dev \in Devices
    /\ sink = "none"
    /\ buf = << >>
    /\ disk = << >>
    /\ lost = << >>
    /\ now = 0
    /\ end = 0
    /\ dur = 0
    /\ polls = 0
    /\ completed = 0
    /\ adc = << >>
    /\ failedPolls = {}
    /\ usedCalibs = {}
    /\ waitFrom = 0
    /\ raised = FALSE
    /\ startFailed = FALSE
    /\ stopPc = "none"
    /\ stopPolls = 0
    /\ stopSlept = 0

\* ---- _sig (bmp280.py:44-49): may run between any two steps of main() ----
_sig ==
    /\ pc # "done"
    /\ STOP' = TRUE
    /\ stopPc' = IF STOP THEN stopPc ELSE pc
    /\ stopPolls' = IF STOP THEN stopPolls ELSE polls
    /\ UNCHANGED << pc, busVars, sinkVars, clockVars, pollVars, raised,
                    startFailed, stopSlept >>

\* ---- startup (bmp280.py:118-141) ----
\* an exception raised inside the outer try: the finally clause runs next;
\* inside the with block the file is closed first
Raise(target) ==
    /\ pc' = target
    /\ raised' = TRUE

\* lines 118-119: the output directory; an exception here is outside every try
MakeDirs ==
    /\ pc = "mkdir"
    /\ \E ok \in BOOLEAN :
          IF ok
          THEN pc' = "open_bus" /\ UNCHANGED << raised, startFailed >>
          ELSE Raise("done") /\ startFailed' = TRUE
    /\ UNCHANGED << busVars, sinkVars, clockVars, pollVars, stopVars >>

\* lines 121-126: SMBus(1); on failure sys.exit(1)
OpenBus ==
    /\ pc = "open_bus"
    /\ \E ok \in BOOLEAN :
          IF ok
          THEN /\ bus' = "open"
               /\ pc' = "chip_id"
               /\ UNCHANGED << raised, startFailed >>
          ELSE /\ Raise("done")
               /\ startFailed' = TRUE
               /\ UNCHANGED bus
    /\ UNCHANGED << busCloses, busLog, calib, dev, sinkVars, clockVars, pollVars,
                    stopVars >>

\* line 129: bus.read_byte_data(ADDR, REG_ID)
ReadChipId ==
    /\ pc = "chip_id"
    /\ busLog' = Append(busLog, Tx("read_byte", REG_ID, 1))
    /\ \E ok \in BOOLEAN :
          IF ok
          THEN pc' = "read_calibration" /\ UNCHANGED << raised, startFailed >>
          ELSE Raise("bus_close") /\ startFailed' = TRUE
    /\ UNCHANGED << bus, busCloses, calib, dev, sinkVars, clockVars, pollVars,
                    stopVars >>

\* line 132, read_calibration (lines 54-70): one block read, then the decode
read_calibration ==
    /\ pc = "read_calibration"
    /\ busLog' = Append(busLog, Tx("read_block", REG_CALIB_START, 24))
    /\ \/ /\ calib' = DecodeCalibration(dev.calib)
          /\ pc' = "configure"
          /\ UNCHANGED << raised, startFailed >>
       \/ /\ Raise("bus_close")
          /\ startFailed' = TRUE
          /\ UNCHANGED calib
    /\ UNCHANGED << bus, busCloses, dev, sinkVars, clockVars, pollVars, stopVars >>

\* faulty variant: a failed configuration write is ignored
configure_sensor_Swallow ==
    /\ pc = "configure"
    /\ \E failAt \in 0 .. 2 :
          /\ busLog' = Append(Append(busLog, Tx("write_byte", REG_CTRL_MEAS, 39)),
                              Tx("write_byte", REG_CONFIG, 128))
          /\ startFailed' = (failAt # 0)
    /\ dev' = WriteReg(WriteReg(dev, REG_CTRL_MEAS, 39), REG_CONFIG, 128)
    /\ pc' = "banner"
    /\ UNCHANGED << bus, busCloses, calib, sinkVars, clockVars, pollVars,
                    stopVars, raised >>

\* faulty variant: the configuration register is written before the
\* measurement-control register
configure_sensor_ConfigFirst ==
    /\ pc = "configure"
    /\ \E failAt \in 0 .. 2 :
          LET w1 == Tx("write_byte", REG_CONFIG, 128)
              w2 == Tx("write_byte", REG_CTRL_MEAS, 39)
          IN  /\ busLog' = IF failAt = 1 THEN Append(busLog, w1)
                           ELSE Append(Append(busLog, w1), w2)
              /\ dev' = IF failAt = 1 THEN dev
                        ELSE IF failAt = 2 THEN WriteReg(dev, w1.reg, w1.arg)
                        ELSE WriteReg(WriteReg(dev, w1.reg, w1.arg), w2.reg, w2.arg)
              /\ IF failAt = 0
                 THEN pc' = "banner" /\ UNCHANGED << raised, startFailed >>
                 ELSE Raise("bus_close") /\ startFailed' = TRUE
    /\ UNCHANGED << bus, busCloses, calib, sinkVars, clockVars, pollVars,
                    stopVars >>

\* line 133, configure_sensor (lines 72-77): two register writes; either may
\* raise, and a write that raised has not changed the register
configure_sensor ==
    /\ pc = "configure"
    /\ \E failAt \in 0 .. 2 :
          LET w1 == Tx("write_byte", REG_CTRL_MEAS, 39)
              w2 == Tx("write_byte", REG_CONFIG, 128)
          IN  /\ busLog' = IF failAt = 1 THEN Append(busLog, w1)
                           ELSE Append(Append(busLog, w1), w2)
              /\ dev' = IF failAt = 1 THEN dev
                        ELSE IF failAt = 2 THEN WriteReg(dev, w1.reg, w1.arg)
                        ELSE WriteReg(WriteReg(dev, w1.reg, w1.arg), w2.reg, w2.arg)
              /\ IF failAt = 0
                 THEN pc' = "banner" /\ UNCHANGED << raised, startFailed >>
                 ELSE Raise("bus_close") /\ startFailed' = TRUE
    /\ UNCHANGED << bus, busCloses, calib, sinkVars, clockVars, pollVars,
                    stopVars >>

\* lines 135-137: the settling delay and the banner on stdout
PrintBanner ==
    /\ pc = "banner"
    /\ \E ok \in BOOLEAN :
          IF ok
          THEN pc' = "open_sink" /\ UNCHANGED << raised, startFailed >>
          ELSE Raise("bus_close") /\ startFailed' = TRUE
    /\ UNCHANGED << busVars, sinkVars, clockVars, pollVars, stopVars >>

\* line 138: open(logfile, "w")
OpenSink ==
    /\ pc = "open_sink"
    /\ \E ok \in BOOLEAN :
          IF ok
          THEN /\ sink' = "open"
               /\ pc' = "header"
               /\ UNCHANGED << raised, startFailed >>
          ELSE /\ Raise("bus_close")
               /\ startFailed' = TRUE
               /\ UNCHANGED sink
    /\ UNCHANGED << busVars, buf, disk, lost, clockVars, pollVars, stopVars >>

\* f.flush(): on success everything buffered reaches the file; on failure
\* some prefix may have been written before the error
FlushDone == buf' = << >> /\ disk' = disk \o buf

FlushError ==
    \E n \in 0 .. (Len(buf) - 1) :
       /\ disk' = disk \o SubSeq(buf, 1, n)
       /\ buf' = SubSeq(buf, n + 1, Len(buf))

\* faulty variant: the header row is written but not flushed
WriteHeader_NoFlush ==
    /\ pc = "header"
    /\ \/ /\ buf' = Append(buf, Header)
          /\ pc' = "loop_head"
          /\ UNCHANGED << raised, startFailed >>
       \/ /\ UNCHANGED buf
          /\ Raise("sink_close")
          /\ startFailed' = TRUE
    /\ UNCHANGED << busVars, sink, disk, lost, clockVars, pollVars, stopVars >>

\* lines 139-141: the header row and its flush
WriteHeader ==
    /\ pc = "header"
    /\ \/ /\ buf' = << >>
          /\ disk' = Append(disk, Header)
          /\ pc' = "loop_head"
          /\ UNCHANGED << raised, startFailed >>
       \/ /\ \E written \in BOOLEAN :
               buf' = IF written THEN Append(buf, Header) ELSE buf
          /\ UNCHANGED disk
          /\ Raise("sink_close")
          /\ startFailed' = TRUE
    /\ UNCHANGED << busVars, sink, lost, clockVars, pollVars, stopVars >>

\* ---- the sampling loop (bmp280.py:143-159) ----
\* line 143: while not STOP
LoopHead ==
    /\ pc = "loop_head"
    /\ IF STOP
       THEN pc' = "sink_close" /\ UNCHANGED pollVars
       ELSE /\ polls < MaxPolls
            /\ pc' = "read_raw"
            /\ polls' = polls + 1
            /\ UNCHANGED << completed, adc, failedPolls, usedCalibs >>
    /\ UNCHANGED << busVars, sinkVars, clockVars, stopVars, raised, startFailed >>

\* faulty variant: the bus read is outside the try, its exception ends the loop
read_raw_Uncaught ==
    /\ pc = "read_raw"
    /\ busLog' = Append(busLog, Tx("read_block", REG_PRESS_MSB, 6))
    /\ \/ /\ adc' = AssembleRaw(dev.meas)
          /\ pc' = "write_ok"
          /\ UNCHANGED << failedPolls, raised >>
       \/ /\ failedPolls' = failedPolls \cup {polls}
          /\ Raise("sink_close")
          /\ UNCHANGED adc
    /\ UNCHANGED << bus, busCloses, calib, dev, sinkVars, clockVars, stopVars, polls,
                    completed, usedCalibs, startFailed >>

\* faulty variant: every poll reads and decodes the calibration block again
read_raw_RereadsCalibration ==
    /\ pc = "read_raw"
    /\ busLog' = Append(Append(busLog, Tx("read_block", REG_CALIB_START, 24)),
                        Tx("read_block", REG_PRESS_MSB, 6))
    /\ calib' = DecodeCalibration(dev.calib)
    /\ \/ /\ adc' = AssembleRaw(dev.meas)
          /\ pc' = "write_ok"
          /\ UNCHANGED failedPolls
       \/ /\ failedPolls' = failedPolls \cup {polls}
          /\ pc' = "h_write"
          /\ UNCHANGED adc
    /\ UNCHANGED << bus, busCloses, dev, sinkVars, clockVars, stopVars, polls,
                    completed, usedCalibs, raised, startFailed >>

\* line 145, read_raw (lines 79-83): one block read, then the assembly
read_raw ==
    /\ pc = "read_raw"
    /\ busLog' = Append(busLog, Tx("read_block", REG_PRESS_MSB, 6))
    /\ \/ /\ adc' = AssembleRaw(dev.meas)
          /\ pc' = "write_ok"
          /\ UNCHANGED failedPolls
       \/ /\ failedPolls' = failedPolls \cup {polls}
          /\ pc' = "h_write"
          /\ UNCHANGED adc
    /\ UNCHANGED << bus, busCloses, calib, dev, sinkVars, clockVars, stopVars, polls,
                    completed, usedCalibs, raised, startFailed >>

\* faulty variant: the poll is abandoned when STOP is already set
WriteOk_AbortsOnStop ==
    /\ pc = "write_ok"
    /\ IF STOP
       THEN pc' = "loop_head" /\ UNCHANGED << buf, usedCalibs >>
       ELSE /\ usedCalibs' = usedCalibs \cup {calib}
            /\ \/ /\ LET r == compensate(adc[1], adc[2], calib)
                     IN  buf' = Append(buf, Row(polls, now, Fmt3(r[1]), Fmt3(r[2])))
                  /\ pc' = "flush_ok"
               \/ /\ pc' = "h_write"
                  /\ UNCHANGED buf
    /\ UNCHANGED << busVars, sink, disk, lost, clockVars, stopVars, polls,
                    completed, adc, failedPolls, raised, startFailed >>

\* lines 146-147: compensate (never raises) and the writerow of the Ok row
WriteOk ==
    /\ pc = "write_ok"
    /\ usedCalibs' = usedCalibs \cup {calib}
    /\ \/ /\ LET r == compensate(adc[1], adc[2], calib)
             IN  buf' = Append(buf, Row(polls, now, Fmt3(r[1]), Fmt3(r[2])))
          /\ pc' = "flush_ok"
       \/ /\ pc' = "h_write"
          /\ UNCHANGED buf
    /\ UNCHANGED << busVars, sink, disk, lost, clockVars, stopVars, polls,
                    completed, adc, failedPolls, raised, startFailed >>

\* line 148: f.flush() of the Ok row
FlushOk ==
    /\ pc = "flush_ok"
    /\ \/ FlushDone /\ pc' = "print_ok"
       \/ FlushError /\ pc' = "h_write"
    /\ UNCHANGED << busVars, sink, lost, clockVars, stopVars, pollVars, raised,
                    startFailed >>

\* line 149: the reading on stdout
PrintOk ==
    /\ pc = "print_ok"
    /\ \E ok \in BOOLEAN : pc' = IF ok THEN "set_end" ELSE "h_write"
    /\ UNCHANGED << busVars, sinkVars, clockVars, stopVars, pollVars, raised,
                    startFailed >>

\* faulty variant: the failed poll is recorded with nan and a zero pressure
HandlerWrite_ZeroPressure ==
    /\ pc = "h_write"
    /\ \/ /\ buf' = Append(buf, Row(polls, now, NanField, Fmt3(0)))
          /\ pc' = "h_flush"
          /\ UNCHANGED raised
       \/ /\ Raise("sink_close")
          /\ UNCHANGED buf
    /\ UNCHANGED << busVars, sink, disk, lost, clockVars, stopVars, pollVars,
                    startFailed >>

\* line 152: the except clause writes the nan row
HandlerWrite ==
    /\ pc = "h_write"
    /\ \/ /\ buf' = Append(buf, Row(polls, now, NanField, NanField))
          /\ pc' = "h_flush"
          /\ UNCHANGED raised
       \/ /\ Raise("sink_close")
          /\ UNCHANGED buf
    /\ UNCHANGED << busVars, sink, disk, lost, clockVars, stopVars, pollVars,
                    startFailed >>

\* faulty variant: the nan row is not flushed
HandlerFlush_Skipped ==
    /\ pc = "h_flush"
    /\ pc' = "h_print"
    /\ UNCHANGED << busVars, sinkVars, clockVars, stopVars, pollVars, raised,
                    startFailed >>

\* line 153: f.flush() of the nan row
HandlerFlush ==
    /\ pc = "h_flush"
    /\ \/ FlushDone /\ pc' = "h_print" /\ UNCHANGED raised
       \/ FlushError /\ Raise("sink_close")
    /\ UNCHANGED << busVars, sink, lost, clockVars, stopVars, pollVars,
                    startFailed >>

\* line 154: the diagnostic on stderr
HandlerPrint ==
    /\ pc = "h_print"
    /\ \E ok \in BOOLEAN :
          IF ok THEN pc' = "set_end" /\ UNCHANGED raised ELSE Raise("sink_close")
    /\ UNCHANGED << busVars, sinkVars, clockVars, stopVars, pollVars, startFailed >>

\* faulty variant: after a failed read the next poll is due at once
SetEnd_RetriesAtOnce ==
    /\ pc = "set_end"
    /\ end' = IF polls \in failedPolls THEN now ELSE now + Interval
    /\ waitFrom' = now
    /\ completed' = polls
    /\ pc' = "wait_check"
    /\ UNCHANGED << busVars, sinkVars, now, dur, stopVars, polls, adc, failedPolls,
                    usedCalibs, raised, startFailed >>

\* line 157: end = time.time() + INTERVAL_S
SetEnd ==
    /\ pc = "set_end"
    /\ end' = now + Interval
    /\ waitFrom' = now
    /\ completed' = polls
    /\ pc' = "wait_check"
    /\ UNCHANGED << busVars, sinkVars, now, dur, stopVars, polls, adc, failedPolls,
                    usedCalibs, raised, startFailed >>

\* faulty variant: the wait loop does not look at STOP
WaitCheck_IgnoresStop ==
    /\ pc = "wait_check"
    /\ pc' = IF now < end THEN "wait_dur" ELSE "loop_head"
    /\ UNCHANGED << busVars, sinkVars, clockVars, stopVars, pollVars, raised,
                    startFailed >>

\* line 158: while not STOP and time.time() < end
WaitCheck ==
    /\ pc = "wait_check"
    /\ pc' = IF ~STOP /\ now < end THEN "wait_dur" ELSE "loop_head"
    /\ UNCHANGED << busVars, sinkVars, clockVars, stopVars, pollVars, raised,
                    startFailed >>

\* line 159, the argument: min(0.5, end - time.time()); the clock may have
\* advanced since the reading of line 158.  time.sleep raises ValueError on a
\* negative argument, outside the try/except of the poll.
WaitDuration ==
    /\ pc = "wait_dur"
    /\ \E skew \in 0 .. MaxSkew :
          LET d == Min(SLICE, end - (now + skew))
          IN  /\ now' = now + skew
              /\ dur' = d
              /\ IF d < 0 THEN Raise("sink_close")
                 ELSE pc' = "sleep" /\ UNCHANGED raised
    /\ UNCHANGED << busVars, sinkVars, end, waitFrom, stopVars, pollVars,
                    startFailed >>

\* line 159, the call: time.sleep(dur) runs to its end, also when a signal
\* arrives meanwhile (the handler returns and the sleep resumes)
Sleep ==
    /\ pc = "sleep"
    /\ now' = now + dur
    /\ stopSlept' = IF STOP THEN stopSlept + dur ELSE stopSlept
    /\ pc' = "wait_check"
    /\ UNCHANGED << busVars, sinkVars, end, dur, waitFrom, STOP, stopPc,
                    stopPolls, pollVars, raised, startFailed >>

\* faulty variant: the bus is closed while the file is still open
SinkClose_LeavesOpen ==
    /\ pc = "sink_close"
    /\ pc' = "bus_close"
    /\ UNCHANGED << busVars, sinkVars, clockVars, stopVars, pollVars, raised,
                    startFailed >>

\* ---- shutdown (bmp280.py:138, 160-165) ----
\* leaving the with block: f.close() flushes what is buffered and closes the
\* file; if that flush fails the file is closed all the same and the
\* buffered rows are dropped
SinkClose ==
    /\ pc = "sink_close"
    /\ sink' = "closed"
    /\ buf' = << >>
    /\ \/ /\ disk' = disk \o buf
          /\ UNCHANGED << lost, raised >>
       \/ /\ buf # << >>
          /\ lost' = buf
          /\ raised' = TRUE
          /\ UNCHANGED disk
    /\ pc' = "bus_close"
    /\ UNCHANGED << busVars, clockVars, stopVars, pollVars, startFailed >>

\* lines 160-165: finally: bus.close(), its exception swallowed
BusClose ==
    /\ pc = "bus_close"
    /\ bus' = "closed"
    /\ busCloses' = busCloses + 1
    /\ pc' = "done"
    /\ UNCHANGED << busLog, calib, dev, sinkVars, clockVars, stopVars, pollVars,
                    raised, startFailed >>

Next ==
    \/ _sig
    \/ MakeDirs
    \/ OpenBus
    \/ ReadChipId
    \/ read_calibration
    \/ configure_sensor
    \/ PrintBanner
    \/ OpenSink
    \/ WriteHeader
    \/ LoopHead
    \/ read_raw
    \/ WriteOk
    \/ FlushOk
    \/ PrintOk
    \/ HandlerWrite
    \/ HandlerFlush
    \/ HandlerPrint
    \/ SetEnd
    \/ WaitCheck
    \/ WaitDuration
    \/ Sleep
    \/ SinkClose
    \/ BusClose

Spec == Init /\ [][Next]_vars

\* ---- vocabulary of the properties ----
\* rows of the sink in the order they were written
Sink == disk \o buf

IsData(r) == r.kind = "data"

DataRows(rows) == SelectSeq(rows, IsData)

IsNanRow(r) == IsData(r) /\ r.temp = NanField /\ r.pres = NanField

IsOkRow(r) == IsData(r) /\ r.temp[1] = "num" /\ r.pres[1] = "num"

RowsOfPoll(rows, k) == { i \in DOMAIN rows : IsData(rows[i]) /\ rows[i].poll = k }

\* the sampling loop is alive: main() is inside the while of line 143
RunningPcs == PollPcs \cup WaitPcs \cup {"loop_head", "set_end"}

ExitPcs == {"sink_close", "bus_close", "done"}

MeasurementReads == { i \in DOMAIN busLog : busLog[i].reg = REG_PRESS_MSB }

\* ---- C1 ----
\* C1: every completed poll cycle has appended exactly one data row to the
\* sink, the rows are in the order of their polls, and every data row belongs
\* to a poll that was started.
C1_OneRecordPerPoll ==
    LET d == DataRows(Sink)
    IN  /\ \A k \in 1 .. completed : Cardinality(RowsOfPoll(d, k)) = 1
        /\ \A i, j \in DOMAIN d : i < j => d[i].poll <= d[j].poll
        /\ \A i \in DOMAIN d : d[i].poll \in 1 .. polls

\* ---- C2 ----
\* C2 as stated: during a poll whose bus read failed no step leaves the
\* sampling loop (a failed poll never terminates the loop).
C2_FailedPollNeverTerminates ==
    [][(pc \in PollPcs /\ polls \in failedPolls) => pc' \in RunningPcs]_vars

\* C2 as amended: while polls 1..N all failed in the bus read and their
\* handlers completed, the sink holds exactly N data rows, all nan, and the
\* loop is running; the read failure itself leads into the handler, and a
\* failed poll leaves the loop only by an exception of the handler's own
\* write, flush or print.
C2_FailedPollsContained ==
    /\ [](( /\ pc \in WaitPcs \cup {"loop_head", "set_end"}
            /\ polls >= 1
            /\ failedPolls = 1 .. polls )
          => ( /\ Len(DataRows(disk)) = polls
               /\ \A i \in DOMAIN DataRows(disk) :
                     /\ IsNanRow(DataRows(disk)[i])
                     /\ DataRows(disk)[i].poll = i
               /\ buf = << >> ))
    /\ [][(pc = "read_raw" /\ pc' # pc)
            => ( /\ pc' \in {"write_ok", "h_write"}
                 /\ (polls \in failedPolls' => pc' = "h_write") )]_vars
    /\ [][(pc \in {"h_write", "h_flush", "h_print"} /\ pc' \notin RunningPcs)
            => (pc' = "sink_close" /\ raised')]_vars

\* two consecutive failed polls have been recorded and the loop is waiting
C2_Witness ==
    /\ pc = "wait_check"
    /\ polls = 2
    /\ failedPolls = {1, 2}
    /\ Len(DataRows(disk)) = 2

\* ---- C3 ----
\* C3: every data row ever written is an Ok row with two numeric fields or
\* a row with both fields nan, and the row of a poll whose bus read failed
\* is never numeric.
C3_RecordShape ==
    \A r \in { (Sink \o lost)[i] : i \in DOMAIN (Sink \o lost) } :
       IsData(r) =>
          /\ IsOkRow(r) \/ IsNanRow(r)
          /\ (r.poll \in failedPolls => IsNanRow(r))

\* the file holds an Ok row and the nan row of a failed read
C3_Witness ==
    /\ \E i \in DOMAIN disk : IsOkRow(disk[i])
    /\ \E i \in DOMAIN disk : IsNanRow(disk[i]) /\ disk[i].poll \in failedPolls

\* ---- C4 ----
\* the order in which main() passes its positions once STOP is set in the wait
ShutdownRank ==
    [ p \in WaitPcs \cup ExitPcs \cup {"loop_head"} |->
        CASE p = "wait_dur"   -> 1
          [] p = "sleep"      -> 2
          [] p = "wait_check" -> 3
          [] p = "loop_head"  -> 4
          [] p = "sink_close" -> 5
          [] p = "bus_close"  -> 6
          [] p = "done"       -> 7 ]

\* C4: after a shutdown request that arrived during the inter-poll wait no
\* further poll is started, no further pass of the wait loop is entered, at
\* most one slice is slept, every step of main() moves on towards the exit
\* (pending sleep, wait check, loop head, close of the sink, close of the
\* bus), and the process ends with the sink and the bus closed.
C4_ShutdownWithinSlice ==
    /\ [](stopPc \in WaitPcs =>
            /\ polls = stopPolls
            /\ pc \in DOMAIN ShutdownRank
            /\ stopSlept <= SLICE
            /\ (pc = "wait_dur" => stopPc = "wait_dur")
            /\ (pc = "sleep" => stopPc \in {"wait_dur", "sleep"})
            /\ (pc = "done" => sink = "closed" /\ bus = "closed"))
    /\ [][(stopPc \in WaitPcs /\ pc' # pc)
            => ShutdownRank[pc'] > ShutdownRank[pc]]_vars

\* the request arrived when a full slice was about to be slept; the process
\* has stopped after sleeping that slice
C4_Witness ==
    /\ stopPc = "sleep"
    /\ stopSlept = SLICE
    /\ pc = "done"
    /\ ~raised

\* ---- C5 ----
\* C5: once a startup step has failed, the measurement block is never read,
\* no poll is started, no data row is written and main() is on its way out.
C5_StartupFailureIsFatal ==
    startFailed =>
       /\ MeasurementReads = {}
       /\ polls = 0
       /\ DataRows(Sink \o lost) = << >>
       /\ pc \in ExitPcs

\* the header could not be written: the file and the bus are closed and the
\* process has ended
C5_Witness ==
    /\ startFailed
    /\ pc = "done"
    /\ sink = "closed"
    /\ bus = "closed"

\* ---- C6 ----
\* C6 as stated: whenever the bus has been closed it was closed once, and
\* the sink, if it was ever opened, has been flushed and closed: no written
\* row is left unflushed or dropped.
C6_BusClosedAfterSinkFlushed ==
    bus = "closed" =>
       /\ busCloses = 1
       /\ sink # "open"
       /\ buf = << >>
       /\ lost = << >>

\* C6 as amended: the bus is closed exactly once on every path on which it
\* was opened, after the sink, if it was opened, has been closed; the close
\* of the sink flushes what is buffered unless that flush itself raises, and
\* only then are rows dropped.  After the close of the bus nothing changes
\* any more: no bus transaction, no row, no transition.
C6_BusClosedOnceAfterSinkClosed ==
    /\ []( /\ busCloses <= 1
           /\ (bus = "closed") = (busCloses = 1)
           /\ (bus = "closed" => sink # "open" /\ buf = << >>)
           /\ (lost # << >> => raised /\ sink = "closed")
           /\ (pc = "done" /\ bus # "none" => bus = "closed") )
    /\ [][bus = "closed" => UNCHANGED vars]_vars

\* a shutdown request ended a run that recorded a poll: file closed, bus
\* closed once
C6_Witness ==
    /\ pc = "done"
    /\ STOP
    /\ ~raised
    /\ busCloses = 1
    /\ sink = "closed"
    /\ Len(DataRows(disk)) >= 1

\* ---- C7 ----
\* C7: after a shutdown request that arrived while a poll was in flight, no
\* further poll is started and no wait slice is slept; when the loop is left
\* on observing the request, the poll in flight has completed and its row is
\* in the file, with nothing left unflushed.
C7_PollInFlightCompletes ==
    stopPc \in PollPcs =>
       /\ polls = stopPolls
       /\ stopSlept = 0
       /\ pc \notin {"wait_dur", "sleep"}
       /\ (pc \in ExitPcs /\ ~raised =>
             /\ completed = stopPolls
             /\ RowsOfPoll(disk, stopPolls) # {}
             /\ buf = << >>
             /\ lost = << >>)

\* the request arrived before the bus read of poll 1 returned; the poll was
\* recorded and the process then stopped
C7_Witness ==
    /\ stopPc = "read_raw"
    /\ pc = "done"
    /\ ~raised
    /\ RowsOfPoll(disk, 1) # {}

\* ---- C8 ----
CalibReads == { i \in DOMAIN busLog : busLog[i].reg = REG_CALIB_START }

ConfigWrites == { i \in DOMAIN busLog : busLog[i].op = "write_byte" }

\* every compensate call of the session was given the session's coefficients
CompensateUsesCalib == \A c \in usedCalibs : c = calib

\* C8 as stated: the calibration block is read once, as the first bus
\* transaction after the open, before both configuration writes, and the
\* decoded set is the one every compensate call is given.
C8_CalibrationFirstTransaction ==
    /\ Cardinality(CalibReads) <= 1
    /\ (calib # NoCalib => CalibReads = {1})
    /\ \A i \in ConfigWrites : \A j \in CalibReads : j < i
    /\ CompensateUsesCalib

\* C8 as amended: the calibration block is read once, as the second bus
\* transaction of the session (the read of the identity register is the
\* only one before it), before both configuration writes; once decoded the
\* set never changes, and every compensate call is given it.
C8_CalibrationOnceAfterChipId ==
    /\ []( /\ Cardinality(CalibReads) <= 1
           /\ (calib # NoCalib =>
                 /\ CalibReads = {2}
                 /\ busLog[1] = Tx("read_byte", REG_ID, 1))
           /\ (calib = NoCalib => ConfigWrites = {} /\ MeasurementReads = {})
           /\ \A i \in ConfigWrites : \A j \in CalibReads : j < i
           /\ CompensateUsesCalib )
    /\ [][calib # NoCalib => calib' = calib]_vars

\* two polls have been recorded as Ok rows after one calibration read
C8_Witness ==
    /\ Cardinality(CalibReads) = 1
    /\ Cardinality(MeasurementReads) = 2
    /\ Cardinality({ i \in DOMAIN disk : IsOkRow(disk[i]) }) = 2

\* ---- C9 ----
\* C9: the deadline of every wait is one interval after the clock reading
\* that follows the poll, whether or not the bus read of that poll failed,
\* and a poll after the first starts exactly when that interval has elapsed:
\* there is no earlier retry after a failure.
C9_WaitIndependentOfOutcome ==
    /\ (pc \in WaitPcs => end = waitFrom + Interval)
    /\ (pc \in PollPcs /\ polls > 1 => now = waitFrom + Interval)

\* poll 2 is being read one interval after the failed poll 1
C9_Witness ==
    /\ pc = "read_raw"
    /\ polls = 2
    /\ 1 \in failedPolls
    /\ now = waitFrom + Interval

\* ---- C10 ----
\* C10: during the wait and at the start of a poll no written row is
\* unflushed and none has been dropped.
C10_NothingBufferedAcrossCycles ==
    pc \in WaitPcs \cup {"set_end", "loop_head", "read_raw"} =>
       /\ buf = << >>
       /\ lost = << >>
       /\ \A k \in 1 .. completed : RowsOfPoll(disk, k) # {}

\* the wait after a failed poll 2: the Ok row of poll 1 and the nan row of
\* poll 2 are both in the file
C10_Witness ==
    /\ pc = "sleep"
    /\ completed = 2
    /\ \E i \in DOMAIN disk : IsOkRow(disk[i]) /\ disk[i].poll = 1
    /\ \E i \in DOMAIN disk : IsNanRow(disk[i]) /\ disk[i].poll = 2

\* ---- single steps of main() over wider inputs ----
\* The state of main() at position p of a run without failure or shutdown
\* request so far: the bus is open, the transactions of log have been issued,
\* the file is open with its header flushed once the loop has been entered,
\* and poll k is in flight.
Reached(p, log, c, d, k, a) ==
    /\ pc = p
    /\ STOP = FALSE
    /\ bus = "open"
    /\ busCloses = 0
    /\ busLog = log
    /\ calib = c
    /\ dev = d
    /\ sink = IF p \in StartPcs THEN "none" ELSE "open"
    /\ buf = << >>
    /\ disk = IF p \in StartPcs THEN << >> ELSE << Header >>
    /\ lost = << >>
    /\ now = 0
    /\ end = 0
    /\ dur = 0
    /\ polls = k
    /\ completed = 0
    /\ adc = a
    /\ failedPolls = {}
    /\ usedCalibs = {}
    /\ waitFrom = 0
    /\ raised = FALSE
    /\ startFailed = FALSE
    /\ stopPc = "none"
    /\ stopPolls = 0
    /\ stopSlept = 0

\* the transactions of a startup without failure, in order
StartupLog ==
    << Tx("read_byte", REG_ID, 1), Tx("read_block", REG_CALIB_START, 24),
       Tx("write_byte", REG_CTRL_MEAS, 39), Tx("write_byte", REG_CONFIG, 128) >>

\* byte values at the edges of the signed and unsigned ranges
EdgeBytes == {0, 1, 127, 128, 255}

\* ---- read_calibration over edge words ----
\* the reference block with one of its twelve words replaced, and the blocks
\* whose twelve words are all equal
EdgeCalibBlocks ==
    { [RefBlock EXCEPT ![2 * k - 1] = lo, ![2 * k] = hi] :
         k \in 1 .. 12, lo \in EdgeBytes, hi \in EdgeBytes }
    \cup { [i \in 1 .. 24 |-> IF i % 2 = 1 THEN lo ELSE hi] :
             lo \in EdgeBytes, hi \in EdgeBytes }

InitCalibration ==
    \E b \in EdgeCalibBlocks, m \in SampleBlocks :
       Reached("read_calibration", SubSeq(StartupLog, 1, 1), NoCalib,
               Device(b, m, 0, 0), 0, << >>)

SpecCalibration == InitCalibration /\ [][read_calibration]_vars

\* ---- C11 ----
\* the k-th 16-bit word of block b, low byte first, by arithmetic
WordValue(b, k) == b[2 * k - 1] + 256 * b[2 * k]

\* C11: after read_calibration the coefficients are the twelve little-endian
\* words of the block in the order T1, T2, T3, P1, P2..P9; T1 and P1 are the
\* word itself (0..65535), the other ten are the word minus 65536 when it
\* exceeds 32767 (-32768..32767); the words 0x0000, 0x7FFF, 0x8000, 0xFFFF
\* give 0, 32767, -32768, -1 signed and 0, 32767, 32768, 65535 unsigned.
C11_CalibrationDecode ==
    pc = "configure" =>
       /\ Len(calib) = 12
       /\ \A k \in 1 .. 12 :
             LET w == WordValue(dev.calib, k)
                 unsigned == k \in {1, 4}
             IN  /\ calib[k] = IF unsigned \/ w <= 32767 THEN w ELSE w - 65536
                 /\ IF unsigned THEN calib[k] \in 0 .. 65535
                                ELSE calib[k] \in -32768 .. 32767
                 /\ (w = 0 => calib[k] = 0)
                 /\ (w = 32767 => calib[k] = 32767)
                 /\ (w = 32768 => calib[k] = IF unsigned THEN 32768 ELSE -32768)
                 /\ (w = 65535 => calib[k] = IF unsigned THEN 65535 ELSE -1)

\* the block whose words are all 0x8000 has been decoded: P1 is 32768 and
\* P9 is -32768
C11_Witness ==
    /\ pc = "configure"
    /\ \A k \in 1 .. 12 : WordValue(dev.calib, k) = 32768
    /\ calib[4] = 32768
    /\ calib[12] = -32768

\* ---- compensate, as called by the loop, over wider inputs ----
\* the reference coefficients of the datasheet's example, which RefBlock encodes
RefVector ==
    << 27504, 26435, -1000, 36477, -10685, 3024, 2855, 140, -7, 15500, -14600, 6000 >>

\* measurement blocks around the reference sample (adc_t = 519888, adc_p = 415148)
NearSamples ==
    { << p, 90, 192, t, 237, x >> : p \in 99 .. 103, t \in 124 .. 128, x \in {0, 15, 240} }

\* measurement blocks over the whole 20-bit range of both counts
WideSamples ==
    { << p, l, x, t, l, x >> : p \in EdgeBytes, t \in EdgeBytes, l \in {0, 255}, x \in {0, 255} }

\* measurement blocks over the whole range of the pressure count and the part
\* of the temperature range in which the reference coefficients keep the
\* intermediate values of PressDenominator within 32 bits
MidSamples ==
    { << p, l, x, t, l, x >> :
         p \in EdgeBytes, t \in {96, 112, 126, 144, 160}, l \in {0, 255}, x \in {0, 255} }

\* the reference block with dig_P1 = 0
ZeroP1RefBlock == [RefBlock EXCEPT ![7] = 0, ![8] = 0]

\* further calibration blocks with dig_P1 = 0: the block of zeros and the
\* block whose other words are all 0xFFFF
ZeroP1Blocks ==
    { [i \in 1 .. 24 |-> 0],
      [i \in 1 .. 24 |-> IF i \in {7, 8} THEN 0 ELSE 255] }

\* poll 1 has read its sample: compensate and the writerow of the Ok row are next
InitCompensate ==
    \E d \in { Device(RefBlock, m, 39, 128) : m \in NearSamples }
           \cup { Device(ZeroP1RefBlock, m, 39, 128) : m \in MidSamples }
           \cup { Device(b, m, 39, 128) : b \in ZeroP1Blocks, m \in WideSamples } :
       Reached("write_ok", Append(StartupLog, Tx("read_block", REG_PRESS_MSB, 6)),
               DecodeCalibration(d.calib), d, 1, AssembleRaw(d.meas))

SpecCompensate == InitCompensate /\ [][WriteOk]_vars

\* ---- C12 ----
\* C12: when the pressure denominator var1 is zero (dig_P1 = 0), for every raw
\* sample the poll writes an Ok row whose pressure is 0.000 and whose
\* temperature is a number; the poll is not counted as failed, and no further
\* bus transaction is issued for it.
C12_ZeroDenominatorSentinel ==
    /\ calib[4] = 0 => PressDenominator(TFine(adc[1], calib), calib) = 0
    /\ pc = "flush_ok" /\ PressDenominator(TFine(adc[1], calib), calib) = 0 =>
          /\ Len(buf) = 1
          /\ IsOkRow(buf[1])
          /\ buf[1].poll = polls
          /\ buf[1].pres = Fmt3(0)
          /\ polls \notin failedPolls
          /\ Cardinality(MeasurementReads) = polls
          /\ ~raised

\* dig_P1 = 0 and the largest raw counts: the Ok row with pressure 0.000 is
\* waiting for its flush
C12_Witness ==
    /\ pc = "flush_ok"
    /\ calib[4] = 0
    /\ adc = << 1048575, 1048575 >>
    /\ buf # << >>
    /\ buf[1].pres = Fmt3(0)

\* ---- C13 ----
\* C13: for the reference coefficients and adc_t = 519888, adc_p = 415148 the
\* Ok row carries a temperature within 0.1 of 25.08 and a pressure within 0.1
\* of 1006.53 (both in thousandths here).
C13_ReferenceVector ==
    pc = "flush_ok" /\ calib = RefVector /\ adc = << 519888, 415148 >> =>
       /\ IsOkRow(buf[1])
       /\ buf[1].temp[2] \in (25080 - 100) .. (25080 + 100)
       /\ buf[1].pres[2] \in (1006530 - 100) .. (1006530 + 100)

\* the row of the reference sample: 25.083 and 1006.532
C13_Witness ==
    /\ pc = "flush_ok"
    /\ calib = RefVector
    /\ adc = << 519888, 415148 >>
    /\ buf[1].temp = Fmt3(25083)
    /\ buf[1].pres = Fmt3(1006532)

\* ---- read_raw over wider inputs ----
\* byte values with every combination of an empty and a full nibble
NibbleBytes == {0, 15, 16, 240, 255}

RawBlocks ==
    { << b0, b1, b2, b3, b4, b5 >> :
         b0 \in NibbleBytes, b1 \in NibbleBytes, b2 \in NibbleBytes,
         b3 \in NibbleBytes, b4 \in NibbleBytes, b5 \in NibbleBytes }

\* poll 1 is about to read its sample
InitRaw ==
    \E m \in RawBlocks :
       Reached("read_raw", StartupLog, RefVector, Device(RefBlock, m, 39, 128),
               1, << >>)

SpecRaw == InitRaw /\ [][read_raw]_vars

\* ---- C14 ----
\* the 20-bit count of the bytes msb, lsb, xlsb, by arithmetic: the low four
\* bits of xlsb are dropped
Count20(msb, lsb, xlsb) == msb * 4096 + lsb * 16 + (xlsb \div 16)

\* C14: after read_raw, adc_p is the 20-bit count of the first three bytes
\* of the block and adc_t that of the last three; both lie in 0..2^20-1,
\* clearing the low four bits of either XLSB byte changes nothing, and the
\* two triples are not exchanged.
C14_RawAssembly ==
    pc = "write_ok" =>
       LET b == dev.meas
           masked == [b EXCEPT ![3] = 16 * (b[3] \div 16), ![6] = 16 * (b[6] \div 16)]
       IN  /\ Len(adc) = 2
           /\ adc[2] = Count20(b[1], b[2], b[3])
           /\ adc[1] = Count20(b[4], b[5], b[6])
           /\ adc[1] \in 0 .. 1048575
           /\ adc[2] \in 0 .. 1048575
           /\ adc[2] = Count20(masked[1], masked[2], masked[3])
           /\ adc[1] = Count20(masked[4], masked[5], masked[6])

\* full pressure bytes and empty temperature bytes, apart from the low
\* nibble of the temperature XLSB: adc_p is 2^20-1 and adc_t is 0
C14_Witness ==
    /\ pc = "write_ok"
    /\ dev.meas = << 255, 255, 255, 0, 0, 15 >>
    /\ adc = << 0, 1048575 >>

\* ---- configure_sensor from any register state, issued more than once ----
\* values the two registers may hold before configure_sensor runs: the
\* power-on value, the values configure_sensor writes, and values with other
\* modes, oversamplings, standby intervals and filters
RegisterBytes == {0, 3, 28, 36, 39, 127, 128, 160, 224, 255}

\* the calibration has been read: configure_sensor is next
InitConfigure ==
    \E cm \in RegisterBytes, cf \in RegisterBytes, m \in SampleBlocks :
       Reached("configure", SubSeq(StartupLog, 1, 2), RefVector,
               Device(RefBlock, m, cm, cf), 0, << >>)

\* configure_sensor is issued again after it has returned (main() itself
\* calls it once, at line 133)
Reissue ==
    /\ pc = "banner"
    /\ Cardinality(ConfigWrites) < 2 * MaxIssues
    /\ pc' = "configure"
    /\ UNCHANGED << STOP, busVars, sinkVars, clockVars, pollVars, raised,
                    startFailed, stopPc, stopPolls, stopSlept >>

NextConfigure == configure_sensor \/ Reissue

SpecConfigure == InitConfigure /\ [][NextConfigure]_vars

\* ---- C15 ----
\* the fields of the two registers (ctrl_meas: osrs_t[7:5] osrs_p[4:2]
\* mode[1:0]; config: t_sb[7:5] filter[4:2])
OsrsT(v) == (v \div 32) % 8

OsrsP(v) == (v \div 4) % 8

Mode(v) == v % 4

StandbyField(v) == (v \div 32) % 8

FilterField(v) == (v \div 4) % 8

\* C15: every completed configure_sensor has issued exactly two writes,
\* first to the measurement-control register (normal mode, oversampling x1
\* for temperature and pressure), then to the configuration register (a
\* standby interval, filter off); and issuing it again leaves the registers
\* as the first issue left them, whatever they held before.
C15_ConfigureTwoWritesIdempotent ==
    /\ [](pc = "banner" =>
            /\ Len(busLog) >= 4
            /\ Len(busLog) % 2 = 0
            /\ \A i \in 3 .. Len(busLog) :
                  /\ busLog[i].op = "write_byte"
                  /\ busLog[i].addr = ADDR
                  /\ busLog[i].reg = IF i % 2 = 1 THEN REG_CTRL_MEAS ELSE REG_CONFIG
            /\ \A i \in 3 .. Len(busLog) :
                  IF i % 2 = 1
                  THEN /\ Mode(busLog[i].arg) = 3
                       /\ OsrsT(busLog[i].arg) = 1
                       /\ OsrsP(busLog[i].arg) = 1
                  ELSE /\ StandbyField(busLog[i].arg) # 0
                       /\ FilterField(busLog[i].arg) = 0
            /\ dev.ctrl_meas = busLog[Len(busLog) - 1].arg
            /\ dev.config = busLog[Len(busLog)].arg)
    /\ [][pc = "configure" /\ pc' = "banner" =>
             /\ Len(busLog') = Len(busLog) + 2
             /\ (Len(busLog) >= 4 => dev' = dev)]_vars

\* configure_sensor has returned a second time: four writes have been
\* issued since the calibration read
C15_Witness ==
    /\ pc = "banner"
    /\ Len(busLog) = 6
    /\ dev.ctrl_meas = 39
    /\ dev.config = 128

\* ---- C16 ----
\* positions of the header row in a sequence of rows
HeaderRows(rows) == { i \in DOMAIN rows : rows[i] = Header }

\* C16: the header row is never written twice; once the loop has been
\* entered it is the first row of the file, on disk, exactly once; every
\* data row comes after it; and when main() ends after a shutdown request
\* that arrived before the first poll, the file holds the header and nothing
\* else.
C16_HeaderOnceBeforeAnyPoll ==
    /\ Cardinality(HeaderRows(Sink \o lost)) <= 1
    /\ (pc \in RunningPcs \/ polls >= 1 =>
          /\ disk # << >>
          /\ disk[1] = Header
          /\ HeaderRows(Sink \o lost) = {1})
    /\ \A i \in DOMAIN Sink : IsData(Sink[i]) => i > 1 /\ disk[1] = Header
    /\ (pc = "done" /\ ~startFailed /\ polls = 0 =>
          /\ STOP
          /\ disk = << Header >>
          /\ buf = << >>
          /\ lost = << >>)

\* main() has ended after a shutdown request that arrived during startup:
\* no poll was started and the file holds the header alone
C16_Witness ==
    /\ pc = "done"
    /\ stopPc \in StartPcs
    /\ polls = 0
    /\ ~startFailed
    /\ sink = "closed"
    /\ disk = << Header >>

\* ---- C17 ----
\* C17: a nan row belongs to a poll whose bus read failed, and no poll has
\* more than one data row: a failure of the Ok row's write, flush or print
\* adds neither a nan row nor a second row for that poll.
C17_NanOnlyAfterFailedRead ==
    LET rows == Sink \o lost
    IN  /\ \A i \in DOMAIN rows : IsNanRow(rows[i]) => rows[i].poll \in failedPolls
        /\ \A k \in 1 .. polls : Cardinality(RowsOfPoll(rows, k)) <= 1

\* ---- C18 ----
\* C18: the argument of time.sleep in the wait loop is at least 0 and at
\* most one slice (0.5 s), whatever the clock did between the reading of the
\* deadline check and the reading of the duration.
C18_SleepDurationInRange ==
    /\ 0 <= dur
    /\ dur <= SLICE

====
